---- MODULE Spec2Model ----
(***************************************************************************)
(* Multi-stage approval workflow engine of the expense platform (MySQL     *)
(* server, src/unnamed/part_008): rule normalisation, workflow building,   *)
(* approver resolution, stage activation, outcome evaluation and the       *)
(* submission / decision / rule handlers, for one company and one expense. *)
(***************************************************************************)
EXTENDS Bags, FiniteSets, Integers, Sequences, TLC

VARIABLES
    users,          \* users table of the company: id -> role
    rules,          \* approval_rules rows in the order SELECT returns them
    expense,        \* expenses row: [exists, user_id, status]
    ledger,         \* approvals rows of the expense, in the order SELECT returns them
    notifications,  \* notifications table, a bag of [user_id, title, type]
    audit,          \* audit_logs table, a bag of [user_id, action, entity_type]
    last,           \* last HTTP exchange: [op, code]
    tx,             \* decision transactions in flight (SpecTx): per connection
    locks           \* InnoDB row locks held by FOR UPDATE (SpecTx)

vars == <<users, rules, expense, ledger, notifications, audit, last, tx, locks>>
db == <<users, rules, expense, ledger, notifications, audit>>

-----------------------------------------------------------------------------
(* Bounds of the model *)

MaxRuleOps == 1      \* rule create / edit / delete requests served
MaxDecisions == 2    \* committed decision requests
MaxCandidates == 25  \* approvers a rule may list

-----------------------------------------------------------------------------
(* The company: three managers/admins, one employee, and an id "x" that    *)
(* rules may name although no such user exists.                            *)

NoUser == "none"
UserOrder == <<"s", "a", "b", "c", "x">>
InitialUsers == [u \in {"s", "a", "b", "c"} |->
                    CASE u = "s" -> "employee"
                      [] u = "c" -> "admin"
                      [] OTHER   -> "manager"]
Submitters == {"s", "a"}
RuleCallers == {"a", "c"}

SeqOfSet(S) == SelectSeq(UserOrder, LAMBDA u : u \in S)
Range(f) == {f[i] : i \in DOMAIN f}

RECURSIVE Dedup(_)
Dedup(seq) ==
    IF seq = <<>> THEN <<>>
    ELSE LET front == Dedup(SubSeq(seq, 1, Len(seq) - 1))
             x == seq[Len(seq)]
         IN IF x \in Range(front) THEN front ELSE Append(front, x)

\* A const binding: v is computed once and Body is applied to its value.
With(v, Body(_)) == CHOOSE result \in {Body(x) : x \in {v}} : TRUE

-----------------------------------------------------------------------------
(* Rule payloads an administrator may send.  pct10 is the percentage in    *)
(* tenths, so that non-integer percentages are inputs too.                 *)

Payload(type, approvers, pct10, specific, sequence) ==
    [rule_name |-> TRUE, rule_type |-> type, approvers |-> approvers,
     pct10 |-> pct10, specific_approver_required |-> specific,
     approver_sequence |-> sequence]

RulePayloads == {
    Payload("percentage", <<"a", "b">>, 500, NoUser, <<>>),
    Payload("specific", <<>>, 0, "x", <<"a">>),
    Payload("percentage", <<"b", "a">>, 1000, NoUser, <<>>),
    Payload("percentage", <<"a">>, 0, NoUser, <<>>)
}

VALID_RULE_TYPES == {"percentage", "specific", "hybrid"}

normalizeRulePayload(raw) ==
    LET ruleTypeRaw == IF raw.rule_type = "absent" THEN "percentage" ELSE raw.rule_type
        normalizedApprovers == Dedup(SelectSeq(raw.approvers, LAMBDA id : id # ""))
        pct10 == raw.pct10
        specificApprover == raw.specific_approver_required
        afterSequence == Dedup(raw.approver_sequence)
        afterApprovers == IF ruleTypeRaw # "specific"
                          THEN Dedup(afterSequence \o normalizedApprovers)
                          ELSE afterSequence
        sequenceIds == IF specificApprover # NoUser
                       THEN Dedup(Append(afterApprovers, specificApprover))
                       ELSE afterApprovers
        invalid ==
            \/ ruleTypeRaw \notin VALID_RULE_TYPES
            \/ pct10 < 0 \/ pct10 > 1000
            \/ ruleTypeRaw = "percentage" /\ normalizedApprovers = <<>>
            \/ ruleTypeRaw = "percentage" /\ pct10 <= 0
            \/ ruleTypeRaw = "specific" /\ specificApprover = NoUser
            \/ ruleTypeRaw = "hybrid" /\ specificApprover = NoUser
            \/ ruleTypeRaw = "hybrid" /\ normalizedApprovers = <<>>
            \/ ruleTypeRaw = "hybrid" /\ pct10 <= 0
    IN IF invalid THEN [ok |-> FALSE]
       ELSE [ok |-> TRUE,
             rule |-> [rule_type |-> ruleTypeRaw,
                       approvers |-> normalizedApprovers,
                       min_approval_percentage |->
                           IF ruleTypeRaw = "specific" THEN 0 ELSE (pct10 + 5) \div 10,
                       specific_approver_required |-> specificApprover,
                       approver_sequence |-> sequenceIds]]

\* the row stored for an accepted payload
ruleOf(raw) == normalizeRulePayload(raw).rule

-----------------------------------------------------------------------------
(* Workflow Builder *)

\* stageMap is kept as a sequence of sets: stageMap[k] is the set at key k,
\* {} where the Map has no key k; its length is the largest key.
addToStage(stageMap, order, approverId) ==
    LET n == IF order > Len(stageMap) THEN order ELSE Len(stageMap)
    IN [k \in 1..n |->
          LET old == IF k <= Len(stageMap) THEN stageMap[k] ELSE {}
          IN IF k = order THEN old \cup {approverId} ELSE old]

RECURSIVE addList(_, _, _)
addList(stageMap, list, i) ==
    IF i > Len(list) THEN stageMap
    ELSE addList(addToStage(stageMap, i, list[i]), list, i + 1)

addRule(stageMap, rule) ==
    LET hasSequence == Len(rule.approver_sequence) > 0
        withList == IF hasSequence
                    THEN addList(stageMap, rule.approver_sequence, 1)
                    ELSE addList(stageMap, rule.approvers, 1)
        specific == rule.specific_approver_required
        alreadyIncluded == \/ specific \in Range(rule.approver_sequence)
                           \/ specific \in Range(rule.approvers)
        maxExistingOrder == Len(withList)
    IN IF specific # NoUser /\ ~alreadyIncluded
       THEN addToStage(withList, maxExistingOrder + 1, specific)
       ELSE withList

RECURSIVE mergeRules(_, _, _)
mergeRules(stageMap, ruleList, i) ==
    IF i > Len(ruleList) THEN stageMap
    ELSE mergeRules(addRule(stageMap, ruleList[i]), ruleList, i + 1)

\* (mutation of dedupStages: an approver is kept at every key that names it)
RECURSIVE dedupStagesKeepingAll(_, _, _, _)
dedupStagesKeepingAll(stageMap, k, seenGlobal, nextOrder) ==
    IF k > Len(stageMap) THEN <<>>
    ELSE IF stageMap[k] # {}
    THEN <<[order |-> nextOrder, approverIds |-> stageMap[k]]>>
            \o dedupStagesKeepingAll(stageMap, k + 1, seenGlobal, nextOrder + 1)
    ELSE dedupStagesKeepingAll(stageMap, k + 1, seenGlobal, nextOrder)

\* (mutation of dedupStages: a step keeps its key as its order)
RECURSIVE dedupStagesKeepingKeys(_, _, _, _)
dedupStagesKeepingKeys(stageMap, k, seenGlobal, nextOrder) ==
    IF k > Len(stageMap) THEN <<>>
    ELSE LET filtered == stageMap[k] \ seenGlobal
             rest == dedupStagesKeepingKeys(stageMap, k + 1, seenGlobal \cup stageMap[k],
                                            nextOrder)
         IN IF filtered # {} THEN <<[order |-> k, approverIds |-> filtered]>> \o rest
            ELSE rest

\* The walk over the sorted keys: the steps pushed, each with its order.
RECURSIVE dedupStages(_, _, _, _)
dedupStages(stageMap, k, seenGlobal, nextOrder) ==
    IF k > Len(stageMap) THEN <<>>
    ELSE LET filtered == stageMap[k] \ seenGlobal
         IN IF filtered # {}
            THEN <<[order |-> nextOrder, approverIds |-> filtered]>>
                    \o dedupStages(stageMap, k + 1, seenGlobal \cup stageMap[k], nextOrder + 1)
            ELSE dedupStages(stageMap, k + 1, seenGlobal \cup stageMap[k], nextOrder)

workflowSteps(ruleList) == dedupStages(mergeRules(<<>>, ruleList, 1), 1, {}, 1)

\* The stages in order: workflow[i] is the approverIds of the i-th step.
buildApprovalWorkflow(ruleList) ==
    With(workflowSteps(ruleList), LAMBDA steps :
        [i \in DOMAIN steps |-> steps[i].approverIds])

-----------------------------------------------------------------------------
(* Approver Resolver *)

\* (mutation of resolveApproverIds: every candidate is taken)
resolveApproverIdsUnfiltered(userTable, candidateIds, excludeUserId) == candidateIds
resolveApproverIds(userTable, candidateIds, excludeUserId) ==
    {id \in candidateIds : id # excludeUserId /\ id \in DOMAIN userTable}

-----------------------------------------------------------------------------
(* Approval Ledger *)

ApprovalRequest(approverId, title) ==
    [user_id |-> approverId, title |-> title, type |-> "approval"]

\* The rows INSERTed for a stage; ids continue the ids already given out.
stageRows(records, approverIds, stageOrder) ==
    LET ids == SeqOfSet(approverIds)
    IN [i \in 1..Len(ids) |->
          [id |-> Len(records) + i, approver_id |-> ids[i],
           sequence_order |-> stageOrder, status |-> "pending"]]

\* The new rows have random UUID keys: a later SELECT returns them before or
\* after the rows already there (front chooses).
createApprovalsForStage(records, notes, approverIds, stageOrder, title, front) ==
    LET rows == stageRows(records, approverIds, stageOrder)
    IN [ledger |-> IF front THEN rows \o records ELSE records \o rows,
        notifications |-> notes (+) SetToBag({ApprovalRequest(u, title) : u \in approverIds})]

-----------------------------------------------------------------------------
(* Stage Activator *)

stageRecords(approvals, order) ==
    SelectSeq(approvals, LAMBDA r : r.sequence_order = order)

previousComplete(approvals, order) ==
    \A prev \in 1..(order - 1) :
        LET prevApprovals == stageRecords(approvals, prev)
        IN /\ prevApprovals # <<>>
           /\ \A i \in DOMAIN prevApprovals : prevApprovals[i].status = "approved"

\* resolvedApprovers minus the approvers that already hold a record of this
\* same stage.
stageFilter(approvals, resolvedApprovers, order) ==
    {approverId \in resolvedApprovers :
        ~\E i \in DOMAIN approvals :
            /\ approvals[i].approver_id = approverId
            /\ approvals[i].sequence_order = order}

NoStage == [order |-> 0, approverIds |-> {}]

\* The for loop over sortedWorkflow, from stage `order` on: the stage for which
\* records are created, NoStage when the loop breaks or ends.
RECURSIVE scanWorkflow(_, _, _, _, _)
scanWorkflow(userTable, exp, workflow, approvals, order) ==
    IF order > Len(workflow) THEN NoStage
    ELSE IF stageRecords(approvals, order) = <<>>
    THEN IF ~previousComplete(approvals, order) THEN NoStage
         ELSE LET resolvedApprovers ==
                      resolveApproverIds(userTable, workflow[order], exp.user_id)
                  filtered == stageFilter(approvals, resolvedApprovers, order)
              IN IF filtered = {}
                 THEN scanWorkflow(userTable, exp, workflow, approvals, order + 1)
                 ELSE [order |-> order, approverIds |-> filtered]
    ELSE IF \E i \in DOMAIN approvals :
               /\ approvals[i].sequence_order = order
               /\ approvals[i].status = "pending"
         THEN NoStage
         ELSE scanWorkflow(userTable, exp, workflow, approvals, order + 1)

\* The stage maybeActivateNextApprovalStage opens for this ledger.
maybeActivateNextApprovalStage(userTable, exp, ruleList, approvals) ==
    IF approvals = <<>> THEN NoStage
    ELSE IF \E i \in DOMAIN approvals : approvals[i].status = "rejected" THEN NoStage
    ELSE With(buildApprovalWorkflow(ruleList),
              LAMBDA workflow : scanWorkflow(userTable, exp, workflow, approvals, 1))

-----------------------------------------------------------------------------
(* Outcome Evaluator *)

anyRejected(records) == \E i \in DOMAIN records : records[i].status = "rejected"
\* (mutation of allApproved: one approved record is enough)
someApproved(records) == \E i \in DOMAIN records : records[i].status = "approved"

allApproved(records) ==
    records # <<>> /\ \A i \in DOMAIN records : records[i].status = "approved"

\* approvalsByApprover.get(id)?.status: a Map filled in row order, so the last
\* row of an approver is the one kept.
approvalStatusOf(records, id) ==
    LET rows == {i \in DOMAIN records : records[i].approver_id = id}
    IN IF rows = {} THEN "absent"
       ELSE records[CHOOSE i \in rows : \A j \in rows : j <= i].status

\* (mutation of requiredCount: the required count rounded down)
requiredCountFloor(rule, n) == (rule.min_approval_percentage * n) \div 100

\* Math.ceil((Number(rule.min_approval_percentage || 0) / 100) * uniqueIds.length)
\* in IEEE-754 double arithmetic: the quotient p/100 is rounded to 53 bits,
\* the product with n is rounded to 53 bits, then the ceiling is taken.
MantissaBits == 53

\* 2^i mod 100 (of period 20 from i = 2 on)
pow2mod100(i) == IF i < 2 THEN 2 ^ i ELSE (2 ^ (((i - 2) % 20) + 2)) % 100
\* the i-th binary digit of p/100, 0 < p < 100, and what is left after it
quotientBit(p, i) == (2 * ((p * pow2mod100(i - 1)) % 100)) \div 100
remainderAfter(p, i) == (p * pow2mod100(i)) % 100
leadingBit(p) ==
    CHOOSE i \in 1..7 : quotientBit(p, i) = 1 /\ \A j \in 1..(i - 1) : quotientBit(p, j) = 0
mantissa(p, lead) == [j \in 1..MantissaBits |-> quotientBit(p, lead + j - 1)]
\* round to nearest, ties to even
roundsUp(p, lead, M) ==
    With(remainderAfter(p, lead + MantissaBits - 1),
         LAMBDA r : r > 50 \/ (r = 50 /\ M[MantissaBits] = 1))

\* The mantissa is multiplied in four chunks of bits, last chunk first:
\* chunk k holds the bits chunkFirst[k]..chunkLast[k] of the mantissa.
chunkFirst == <<1, 15, 28, 41>>
chunkLast == <<14, 27, 40, MantissaBits>>
chunkWidth(k) == chunkLast[k] - chunkFirst[k] + 1
chunkOf(j) == CHOOSE k \in 1..4 : chunkFirst[k] <= j /\ j <= chunkLast[k]

\* the bits lead + chunkFirst[k] - 1 .. lead + chunkLast[k] - 1 of p / 100
mantissaChunk(p, lead, k) ==
    (((p * pow2mod100(lead + chunkFirst[k] - 2)) % 100) * 2 ^ chunkWidth(k)) \div 100

\* The totals of M * n (+ n when the quotient was rounded up), chunk by chunk:
\* total k is chunk k times n plus the carry out of chunk k + 1.
RECURSIVE chunkTotals(_, _, _, _, _)
chunkTotals(p, lead, n, k, carry) ==
    IF k = 0 THEN <<>>
    ELSE With(mantissaChunk(p, lead, k) * n + carry, LAMBDA t :
              Append(chunkTotals(p, lead, n, k - 1, t \div 2 ^ chunkWidth(k)), t))

productBit(totals, j) ==
    With(chunkOf(j), LAMBDA k : (totals[k] \div 2 ^ (chunkLast[k] - j)) % 2)

bitLength(h) == CHOOSE k \in 0..12 : h < 2 ^ k /\ (k = 0 \/ h >= 2 ^ (k - 1))

\* The product is H * 2^53 + P; it is rounded to its 53 leading bits (inc: the
\* rounding goes up) and the ceiling of the rounded value is returned.
ceilOfProduct(p, lead, n, up) ==
    With(chunkTotals(p, lead, n, 4, IF up THEN n ELSE 0), LAMBDA totals :
    With(totals[1] \div 2 ^ chunkWidth(1), LAMBDA H :
    With(bitLength(H), LAMBDA hb :
    With(totals[4] % 2 ^ hb, LAMBDA R :
        LET odd == productBit(totals, MantissaBits - hb) = 1
            inc == hb > 0 /\ (2 * R > 2 ^ hb \/ (2 * R = 2 ^ hb /\ odd))
            fraction == \/ H % (2 ^ (lead - 1)) # 0
                        \/ \E j \in 1..(MantissaBits - hb) : productBit(totals, j) = 1
        IN (H \div (2 ^ (lead - 1))) + (IF fraction \/ inc THEN 1 ELSE 0)))))

ceilPercentOf(p, n) ==
    IF p = 0 \/ n = 0 THEN 0
    ELSE IF p = 100 THEN n
    ELSE With(leadingBit(p), LAMBDA lead :
         With(mantissa(p, lead), LAMBDA M :
              ceilOfProduct(p, lead, n, roundsUp(p, lead, M))))

\* computed once for every percentage and every size of a candidate set
requiredTable == [p \in 0..100, n \in 0..MaxCandidates |-> ceilPercentOf(p, n)]

requiredCount(rule, n) == requiredTable[rule.min_approval_percentage, n]

evaluatePercentage(rule, records) ==
    LET allApproverIds == {records[i].approver_id : i \in DOMAIN records}
        uniqueIds == IF rule.approvers # <<>> THEN Range(rule.approvers) ELSE allApproverIds
        approvedCount == Cardinality({id \in uniqueIds :
                                          approvalStatusOf(records, id) = "approved"})
        required == requiredCount(rule, Cardinality(uniqueIds))
    IN IF uniqueIds = {} THEN "none"
       ELSE IF \E id \in uniqueIds : approvalStatusOf(records, id) = "rejected"
       THEN "rejected"
       ELSE IF (IF required = 0 THEN approvedCount > 0 ELSE approvedCount >= required)
       THEN "satisfied"
       ELSE "none"

\* (mutation of ruleVerdict: the specific approver is not looked at)
ruleVerdictPercentageOnly(rule, records) ==
    IF rule.rule_type \in {"percentage", "hybrid"}
    THEN (IF evaluatePercentage(rule, records) = "satisfied" THEN "approved"
          ELSE IF evaluatePercentage(rule, records) = "rejected" THEN "rejected"
          ELSE "none")
    ELSE "none"

\* What one iteration of the loop over the rules returns, "none" to go on.
ruleVerdict(rule, records) ==
    LET type == rule.rule_type
        specificStatus ==
            IF type \in {"specific", "hybrid"} /\ rule.specific_approver_required # NoUser
            THEN approvalStatusOf(records, rule.specific_approver_required)
            ELSE "absent"
        percentage == IF type \in {"percentage", "hybrid"}
                      THEN evaluatePercentage(rule, records) ELSE "none"
    IN IF specificStatus = "approved" THEN "approved"
       ELSE IF specificStatus = "rejected" THEN "rejected"
       ELSE IF percentage = "rejected" THEN "rejected"
       ELSE IF percentage = "satisfied" THEN "approved"
       ELSE "none"

RECURSIVE ruleLoop(_, _, _)
ruleLoop(ruleList, records, i) ==
    IF i > Len(ruleList)
    THEN (IF allApproved(records) THEN "approved" ELSE "pending")
    ELSE LET verdict == ruleVerdict(ruleList[i], records)
         IN IF verdict # "none" THEN verdict ELSE ruleLoop(ruleList, records, i + 1)

\* (mutation of evaluateRulesOutcome: with rules, no rejection check before
\* the loop over the rules)
evaluateRulesOutcomeRulesFirst(ruleList, approvalRecords) ==
    IF approvalRecords = <<>> THEN "pending"
    ELSE IF ruleList = <<>>
    THEN (IF anyRejected(approvalRecords) THEN "rejected"
          ELSE IF allApproved(approvalRecords) THEN "approved" ELSE "pending")
    ELSE ruleLoop(ruleList, approvalRecords, 1)

evaluateRulesOutcome(ruleList, approvalRecords) ==
    IF approvalRecords = <<>> THEN "pending"
    ELSE IF ruleList = <<>>
    THEN (IF anyRejected(approvalRecords) THEN "rejected"
          ELSE IF allApproved(approvalRecords) THEN "approved" ELSE "pending")
    ELSE IF anyRejected(approvalRecords) THEN "rejected"
    ELSE ruleLoop(ruleList, approvalRecords, 1)

-----------------------------------------------------------------------------
(* Tables and HTTP exchanges *)

AuditEntry(userId, action, entityType) ==
    [user_id |-> userId, action |-> action, entity_type |-> entityType]

auditCount(log, entityType, actions) ==
    LET hit == {e \in BagToSet(log) : e.entity_type = entityType /\ e.action \in actions}
    IN BagCardinality([e \in hit |-> log[e]])

decisionsServed == auditCount(audit, "expense", {"approved", "rejected"})
ruleOpsServed == auditCount(audit, "approval_rule", {"create", "update", "delete"})

Exchange(op, code) == [op |-> op, code |-> code]

assertRole(userTable, user, roles) == userTable[user] \in roles

TerminalNotification(exp, status) ==
    [user_id |-> exp.user_id,
     title |-> IF status = "approved" THEN "Expense approved" ELSE "Expense rejected",
     type |-> IF status = "approved" THEN "approval" ELSE "rejection"]

-----------------------------------------------------------------------------
(* POST /api/expenses *)

\* The first workflow stage, from stage `order` on, that resolves to somebody.
RECURSIVE firstResolvedStage(_, _, _, _)
firstResolvedStage(userTable, workflow, submitter, order) ==
    IF order > Len(workflow) THEN NoStage
    ELSE LET resolvedIds == resolveApproverIds(userTable, workflow[order], submitter)
         IN IF resolvedIds # {}
            THEN [order |-> order, approverIds |-> resolvedIds]
            ELSE firstResolvedStage(userTable, workflow, submitter, order + 1)

managersAndAdmins(userTable, submitter) ==
    {id \in DOMAIN userTable : userTable[id] \in {"manager", "admin"} /\ id # submitter}

\* The stage whose records submission creates; order 0 when there is nobody.
submissionStage(userTable, ruleList, submitter) ==
    LET activeStage == firstResolvedStage(userTable, buildApprovalWorkflow(ruleList),
                                          submitter, 1)
        fallback == managersAndAdmins(userTable, submitter)
    IN IF activeStage.approverIds # {} THEN activeStage
       ELSE IF fallback # {} THEN [order |-> 1, approverIds |-> fallback]
       ELSE NoStage

Submit(u, valid) ==
    /\ ~expense.exists
    /\ u \in DOMAIN users
    /\ UNCHANGED <<users, rules, tx, locks>>
    /\ IF ~valid
       THEN /\ last' = Exchange("submit", 400)
            /\ UNCHANGED <<expense, ledger, notifications, audit>>
       ELSE LET stage == submissionStage(users, rules, u)
                created == createApprovalsForStage(<<>>, notifications, stage.approverIds,
                               IF stage.order = 0 THEN 1 ELSE stage.order,
                               "New Expense Approval", FALSE)
            IN /\ expense' = [exists |-> TRUE, user_id |-> u, status |-> "pending"]
               /\ ledger' = created.ledger
               /\ notifications' = created.notifications
               /\ audit' = audit (+) SetToBag({AuditEntry(u, "create", "expense")})
               /\ last' = Exchange("submit", 201)

-----------------------------------------------------------------------------
(* POST /api/approvals/:id/decision *)

approvalIds(records) == {records[i].id : i \in DOMAIN records}

\* (mutation of findApproval: the query without its approver_id condition)
findApprovalOfAnyApprover(records, id, userId) ==
    {i \in DOMAIN records : records[i].id = id}

\* SELECT * FROM approvals WHERE id = ? AND approver_id = ?
findApproval(records, id, userId) ==
    {i \in DOMAIN records : records[i].id = id /\ records[i].approver_id = userId}

\* UPDATE approvals SET status = ? WHERE id = ?
updateApproval(records, id, status) ==
    [i \in DOMAIN records |->
        IF records[i].id = id THEN [records[i] EXCEPT !.status = status] ELSE records[i]]

\* (mutation of decidedStatus: the Outcome Evaluator run on the rows read
\* before the Stage Activator)
decidedStatusBeforeActivation(ruleList, updated, allApprovals) ==
    evaluateRulesOutcome(ruleList, updated)

\* The status the handler persists: the Outcome Evaluator on the rows the
\* Stage Activator returned.
decidedStatus(ruleList, updated, allApprovals) ==
    evaluateRulesOutcome(ruleList, allApprovals)

\* What the transaction computes from the rows it reads: the ledger after the
\* UPDATE and the Stage Activator, the new expense status, the notifications
\* and the audit row it inserts.
decisionWrites(userId, ruleList, exp, updated, stage, status, front) ==
    LET created == createApprovalsForStage(updated, EmptyBag, stage.approverIds,
                                           stage.order, "Expense Approval Needed", front)
        allApprovals == IF stage.order = 0 THEN updated ELSE created.ledger
        expenseStatus == decidedStatus(ruleList, updated, allApprovals)
        terminal == IF expenseStatus # exp.status /\ expenseStatus \in {"approved", "rejected"}
                    THEN SetToBag({TerminalNotification(exp, expenseStatus)})
                    ELSE EmptyBag
    IN [ledger |-> allApprovals,
        newRows |-> IF stage.order = 0 THEN <<>>
                    ELSE stageRows(updated, stage.approverIds, stage.order),
        status |-> expenseStatus,
        notifications |-> (IF stage.order = 0 THEN EmptyBag ELSE created.notifications)
                          (+) terminal,
        audit |-> SetToBag({AuditEntry(userId, status, "expense")})]

decisionTransaction(userTable, userId, ruleList, exp, records, id, status, front) ==
    With(updateApproval(records, id, status), LAMBDA updated :
        With(maybeActivateNextApprovalStage(userTable, exp, ruleList, updated),
             LAMBDA stage : decisionWrites(userId, ruleList, exp, updated, stage,
                                           status, front)))

Decide(u, id, status) ==
    /\ u \in DOMAIN users
    /\ UNCHANGED <<users, rules, tx, locks>>
    /\ IF ~assertRole(users, u, {"manager", "admin"})
       THEN /\ last' = Exchange("decision", 403)
            /\ UNCHANGED <<expense, ledger, notifications, audit>>
       ELSE IF status \notin {"approved", "rejected"}
       THEN /\ last' = Exchange("decision", 400)
            /\ UNCHANGED <<expense, ledger, notifications, audit>>
       ELSE IF findApproval(ledger, id, u) = {}
       THEN /\ last' = Exchange("decision", 404)
            /\ UNCHANGED <<expense, ledger, notifications, audit>>
       ELSE /\ decisionsServed < MaxDecisions
            /\ \E front \in BOOLEAN :
               LET done == decisionTransaction(users, u, rules, expense, ledger,
                                               id, status, front)
               IN /\ ledger' = done.ledger
                  /\ expense' = [expense EXCEPT !.status = done.status]
                  /\ notifications' = notifications (+) done.notifications
                  /\ audit' = audit (+) done.audit
                  /\ last' = Exchange("decision", 200)

-----------------------------------------------------------------------------
(* POST, PATCH and DELETE /api/approval-rules *)

InsertAt(seq, pos, x) == SubSeq(seq, 1, pos - 1) \o <<x>> \o SubSeq(seq, pos, Len(seq))
RemoveAt(seq, pos) == SubSeq(seq, 1, pos - 1) \o SubSeq(seq, pos + 1, Len(seq))

RuleRefused(op, code) ==
    /\ last' = Exchange(op, code)
    /\ UNCHANGED <<rules, audit>>

\* The row gets a random UUID key, so it may land anywhere in the order in
\* which SELECT * FROM approval_rules returns the rows.
CreateRule(u, raw, pos) ==
    /\ u \in DOMAIN users
    /\ UNCHANGED <<users, expense, ledger, notifications, tx, locks>>
    /\ IF ~assertRole(users, u, {"admin"}) THEN RuleRefused("rule_create", 403)
       ELSE IF ~raw.rule_name \/ ~normalizeRulePayload(raw).ok
       THEN RuleRefused("rule_create", 400)
       ELSE /\ ruleOpsServed < MaxRuleOps
            /\ pos \in 1..(Len(rules) + 1)
            /\ rules' = InsertAt(rules, pos, normalizeRulePayload(raw).rule)
            /\ audit' = audit (+) SetToBag({AuditEntry(u, "create", "approval_rule")})
            /\ last' = Exchange("rule_create", 201)

UpdateRule(u, id, raw) ==
    /\ u \in DOMAIN users
    /\ UNCHANGED <<users, expense, ledger, notifications, tx, locks>>
    /\ IF ~assertRole(users, u, {"admin"}) THEN RuleRefused("rule_update", 403)
       ELSE IF ~raw.rule_name \/ ~normalizeRulePayload(raw).ok
       THEN RuleRefused("rule_update", 400)
       ELSE /\ ruleOpsServed < MaxRuleOps
            /\ rules' = [i \in DOMAIN rules |->
                            IF i = id THEN normalizeRulePayload(raw).rule ELSE rules[i]]
            /\ audit' = audit (+) SetToBag({AuditEntry(u, "update", "approval_rule")})
            /\ last' = Exchange("rule_update", 200)

DeleteRule(u, id) ==
    /\ u \in DOMAIN users
    /\ UNCHANGED <<users, expense, ledger, notifications, tx, locks>>
    /\ IF ~assertRole(users, u, {"admin"}) THEN RuleRefused("rule_delete", 403)
       ELSE /\ ruleOpsServed < MaxRuleOps
            /\ rules' = IF id \in DOMAIN rules THEN RemoveAt(rules, id) ELSE rules
            /\ audit' = audit (+) SetToBag({AuditEntry(u, "delete", "approval_rule")})
            /\ last' = Exchange("rule_delete", 200)

-----------------------------------------------------------------------------
(* The handlers served one at a time *)

NoExchange == Exchange("none", 0)
Idle == [pc |-> "idle"]
Connections == {1, 2}

\* The approval_rules table at start: empty, or one rule an administrator
\* created earlier through POST /api/approval-rules.
InitialRuleLists ==
    {<<>>} \cup {<<normalizeRulePayload(raw).rule>> :
                    raw \in {p \in RulePayloads : normalizeRulePayload(p).ok}}

Init ==
    /\ users = InitialUsers
    /\ rules \in InitialRuleLists
    /\ expense = [exists |-> FALSE, user_id |-> NoUser, status |-> "pending"]
    /\ ledger = <<>>
    /\ notifications = EmptyBag
    /\ audit = EmptyBag
    /\ last = NoExchange
    /\ tx = [t \in Connections |-> Idle]
    /\ locks = {}

Next ==
    \/ \E u \in Submitters, valid \in BOOLEAN : Submit(u, valid)
    \/ \E u \in DOMAIN users, id \in approvalIds(ledger),
          status \in {"approved", "rejected", "escalated"} : Decide(u, id, status)
    \/ \E u \in RuleCallers, raw \in RulePayloads, pos \in 1..(Len(rules) + 1) :
          CreateRule(u, raw, pos)
    \/ \E u \in RuleCallers, id \in 1..(Len(rules) + 1), raw \in RulePayloads :
          UpdateRule(u, id, raw)
    \/ \E u \in RuleCallers, id \in 1..(Len(rules) + 1) : DeleteRule(u, id)

Spec == Init /\ [][Next]_vars

-----------------------------------------------------------------------------
(* The decision handler statement by statement, on two pooled connections. *)
(* A transaction's writes are private until COMMIT; FOR UPDATE reads lock   *)
(* the row and read the last committed version.                             *)

\* A lock is <<connection, table, row>>; the one expense is row 0.
lockFree(lockSet, t, table, row) ==
    ~\E other \in Connections : other # t /\ <<other, table, row>> \in lockSet
approvalLockFree(lockSet, t, id) == lockFree(lockSet, t, "approvals", id)
\* (mutation of expenseLockFree: the expense read without FOR UPDATE)
expenseReadWithoutLock(lockSet, t) == TRUE
expenseLockFree(lockSet, t) == lockFree(lockSet, t, "expenses", 0)

inFlight == {t \in Connections : tx[t].pc # "idle"}

\* (mutation of committedAfterUpdate: the UPDATE outside the transaction)
autocommittedUpdate(records, id, status) == updateApproval(records, id, status)

\* What the other connections see of the approvals table after this
\* transaction's UPDATE and before its COMMIT.
committedAfterUpdate(records, id, status) == records

TxBegin(t, u, id, status) ==
    /\ tx[t].pc = "idle"
    /\ u \in DOMAIN users
    /\ UNCHANGED <<db, locks>>
    /\ IF ~assertRole(users, u, {"manager", "admin"})
       THEN last' = Exchange("decision", 403) /\ UNCHANGED tx
       ELSE IF status \notin {"approved", "rejected"}
       THEN last' = Exchange("decision", 400) /\ UNCHANGED tx
       ELSE /\ decisionsServed + Cardinality(inFlight) < MaxDecisions
            /\ tx' = [tx EXCEPT ![t] = [pc |-> "selectApproval", user |-> u, id |-> id,
                                        status |-> status]]
            /\ UNCHANGED last

\* The locking read waits when another transaction holds the row.
TxSelectApproval(t) ==
    /\ tx[t].pc = "selectApproval"
    /\ UNCHANGED db
    /\ IF findApproval(ledger, tx[t].id, tx[t].user) = {}
       THEN /\ tx' = [tx EXCEPT ![t] = Idle]
            /\ last' = Exchange("decision", 404)
            /\ UNCHANGED locks
       ELSE IF approvalLockFree(locks, t, tx[t].id)
       THEN /\ locks' = locks \cup {<<t, "approvals", tx[t].id>>}
            /\ tx' = [tx EXCEPT ![t].pc = "selectExpense"]
            /\ UNCHANGED last
       ELSE /\ tx' = [tx EXCEPT ![t].pc = "waitApproval"]
            /\ UNCHANGED <<last, locks>>

TxSelectExpense(t) ==
    /\ tx[t].pc = "selectExpense"
    /\ UNCHANGED <<db, last>>
    /\ IF expenseLockFree(locks, t)
       THEN /\ locks' = locks \cup {<<t, "expenses", 0>>}
            /\ tx' = [tx EXCEPT ![t] = [pc |-> "update", user |-> tx[t].user,
                                        id |-> tx[t].id, status |-> tx[t].status,
                                        existing |-> expense]]
       ELSE /\ tx' = [tx EXCEPT ![t].pc = "waitExpense"]
            /\ UNCHANGED locks

\* A waiting transaction goes on once the lock was handed to it; the read
\* then returns the rows as last committed.
TxGranted(t) ==
    /\ UNCHANGED db
    /\ \/ /\ tx[t].pc = "waitApproval"
          /\ <<t, "approvals", tx[t].id>> \in locks
          /\ IF findApproval(ledger, tx[t].id, tx[t].user) = {}
             THEN /\ tx' = [tx EXCEPT ![t] = Idle]
                  /\ last' = Exchange("decision", 404)
                  /\ locks' = {l \in locks : l[1] # t}
             ELSE /\ tx' = [tx EXCEPT ![t].pc = "selectExpense"]
                  /\ UNCHANGED <<last, locks>>
       \/ /\ tx[t].pc = "waitExpense"
          /\ <<t, "expenses", 0>> \in locks
          /\ tx' = [tx EXCEPT ![t] = [pc |-> "update", user |-> tx[t].user,
                                      id |-> tx[t].id, status |-> tx[t].status,
                                      existing |-> expense]]
          /\ UNCHANGED <<last, locks>>

\* COMMIT and ROLLBACK release the locks of t; InnoDB hands a released row to
\* the transaction waiting for it.
release(lockSet, t) ==
    LET kept == {l \in lockSet : l[1] # t}
        handed == {<<o, "expenses", 0>> : o \in {o \in Connections \ {t} :
                        /\ tx[o].pc = "waitExpense"
                        /\ lockFree(kept, o, "expenses", 0)}}
                  \cup
                  {<<o, "approvals", tx[o].id>> : o \in {o \in Connections \ {t} :
                        /\ tx[o].pc = "waitApproval"
                        /\ lockFree(kept, o, "approvals", tx[o].id)}}
    IN kept \cup handed

TxUpdateApproval(t) ==
    /\ tx[t].pc = "update"
    /\ ledger' = committedAfterUpdate(ledger, tx[t].id, tx[t].status)
    /\ tx' = [tx EXCEPT ![t].pc = "evaluate"]
    /\ UNCHANGED <<users, rules, expense, notifications, audit, last, locks>>

\* From the first plain SELECT on, the transaction reads the committed rows
\* plus its own UPDATE; what it writes is kept until COMMIT.
TxEvaluate(t) ==
    /\ tx[t].pc = "evaluate"
    /\ \E front \in BOOLEAN :
          \E done \in {decisionTransaction(users, tx[t].user, rules, tx[t].existing, ledger,
                                           tx[t].id, tx[t].status, front)} :
             tx' = [tx EXCEPT ![t] =
                       [pc |-> "commit", user |-> tx[t].user, id |-> tx[t].id,
                        status |-> tx[t].status, existing |-> tx[t].existing,
                        front |-> front, newRows |-> done.newRows,
                        expenseStatus |-> done.status,
                        notifications |-> done.notifications, audit |-> done.audit]]
    /\ UNCHANGED <<db, last, locks>>

TxCommit(t) ==
    /\ tx[t].pc = "commit"
    /\ LET updated == updateApproval(ledger, tx[t].id, tx[t].status)
       IN ledger' = IF tx[t].front THEN tx[t].newRows \o updated
                    ELSE updated \o tx[t].newRows
    /\ expense' = [expense EXCEPT !.status = tx[t].expenseStatus]
    /\ notifications' = notifications (+) tx[t].notifications
    /\ audit' = audit (+) tx[t].audit
    /\ locks' = release(locks, t)
    /\ tx' = [tx EXCEPT ![t] = Idle]
    /\ last' = Exchange("decision", 200)
    /\ UNCHANGED <<users, rules>>

\* The catch block: an error or a lock wait timeout at any statement.
TxRollback(t) ==
    /\ tx[t].pc # "idle"
    /\ locks' = release(locks, t)
    /\ tx' = [tx EXCEPT ![t] = Idle]
    /\ last' = Exchange("decision", 500)
    /\ UNCHANGED db

TxStep(t) ==
    \/ TxSelectApproval(t) \/ TxSelectExpense(t) \/ TxGranted(t)
    \/ TxUpdateApproval(t) \/ TxEvaluate(t) \/ TxCommit(t)

NextTx ==
    \/ \E u \in Submitters : Submit(u, TRUE)
    \/ \E t \in Connections, u \in DOMAIN users, id \in approvalIds(ledger),
          status \in {"approved", "rejected", "escalated"} : TxBegin(t, u, id, status)
    \/ \E t \in Connections : TxSelectApproval(t)
    \/ \E t \in Connections : TxSelectExpense(t)
    \/ \E t \in Connections : TxGranted(t)
    \/ \E t \in Connections : TxUpdateApproval(t)
    \/ \E t \in Connections : TxEvaluate(t)
    \/ \E t \in Connections : TxCommit(t)
    \/ \E t \in Connections : TxRollback(t)

\* Node runs every continuation of a handler that is ready to run.
FairTx == \A t \in Connections : WF_vars(TxStep(t))

SpecTx == Init /\ [][NextTx]_vars /\ FairTx

-----------------------------------------------------------------------------
(* Submissions and decisions under a fixed rule set, for rule sets with       *)
(* several stages, several rules, and specific and hybrid rules.           *)

ScenarioB == Payload("percentage", <<"a", "b", "c">>, 340, NoUser, <<>>)
SpecificC == Payload("specific", <<>>, 0, "c", <<"c">>)
HybridC == Payload("hybrid", <<"a", "b">>, 500, "c", <<>>)
BothAB == Payload("percentage", <<"a", "b">>, 1000, NoUser, <<>>)
ThroughX == Payload("percentage", <<"a", "x", "b">>, 1000, NoUser, <<>>)
SpecificX == Payload("specific", <<>>, 0, "x", <<"a">>)
OnlyX == Payload("specific", <<>>, 0, "x", <<>>)

WithX == Payload("percentage", <<"a", "x">>, 1000, NoUser, <<>>)
BesideX == Payload("percentage", <<"c", "b">>, 1000, NoUser, <<>>)
FlowPayloadLists ==
    {<<>>, <<ScenarioB>>, <<HybridC>>, <<BothAB, SpecificC>>, <<SpecificC, BothAB>>,
     <<ThroughX>>, <<SpecificX>>, <<OnlyX>>, <<WithX, BesideX>>}

FlowRuleLists ==
    {[i \in DOMAIN list |-> normalizeRulePayload(list[i]).rule] : list \in FlowPayloadLists}

InitFlow ==
    /\ users = InitialUsers
    /\ rules \in FlowRuleLists
    /\ expense = [exists |-> FALSE, user_id |-> NoUser, status |-> "pending"]
    /\ ledger = <<>>
    /\ notifications = EmptyBag
    /\ audit = EmptyBag
    /\ last = NoExchange
    /\ tx = [t \in Connections |-> Idle]
    /\ locks = {}

NextFlow ==
    \/ \E u \in Submitters, valid \in BOOLEAN : Submit(u, valid)
    \/ \E u \in DOMAIN users, id \in approvalIds(ledger),
          status \in {"approved", "rejected", "escalated"} : Decide(u, id, status)

SpecFlow == InitFlow /\ [][NextFlow]_vars

-----------------------------------------------------------------------------
(* The Outcome Evaluator alone, on one percentage or hybrid rule with up to  *)
(* MaxCandidates approvers and a ledger in which some of them have approved. *)

EvalApprovers ==
    <<
      "m01", "m02", "m03", "m04", "m05", "m06", "m07", "m08", "m09",
      "m10", "m11", "m12", "m13", "m14", "m15", "m16", "m17", "m18",
      "m19", "m20", "m21", "m22", "m23", "m24", "m25", "m26", "m27",
      "m28", "m29", "m30"
    >>

EvalRule(type, p, n, listed) ==
    [rule_type |-> type,
     approvers |-> IF listed THEN SubSeq(EvalApprovers, 1, n) ELSE <<>>,
     min_approval_percentage |-> p,
     specific_approver_required |-> IF type = "hybrid" THEN "x" ELSE NoUser,
     approver_sequence |-> <<>>]

\* One record for each of the first n approvers, the first k of them approved,
\* and a record of the specific approver unless specific is "absent".
EvalLedger(n, k, specific) ==
    [i \in 1..n |-> [id |-> i, approver_id |-> EvalApprovers[i], sequence_order |-> 1,
                     status |-> IF i <= k THEN "approved" ELSE "pending"]]
    \o (IF specific = "absent" THEN <<>>
        ELSE <<[id |-> n + 1, approver_id |-> "x", sequence_order |-> 1,
                status |-> specific]>>)

InitEval ==
    /\ users = InitialUsers
    /\ expense = [exists |-> TRUE, user_id |-> "s", status |-> "pending"]
    /\ notifications = EmptyBag
    /\ audit = EmptyBag
    /\ last = NoExchange
    /\ tx = [t \in Connections |-> Idle]
    /\ locks = {}
    /\ \E p \in 1..100, n \in 1..MaxCandidates :
          \E k \in 0..n :
             \/ \E listed \in BOOLEAN :
                   /\ rules = <<EvalRule("percentage", p, n, listed)>>
                   /\ ledger = EvalLedger(n, k, "absent")
             \/ \E specific \in {"absent", "pending", "approved"} :
                   /\ rules = <<EvalRule("hybrid", p, n, TRUE)>>
                   /\ ledger = EvalLedger(n, k, specific)

Evaluated == Exchange("evaluateRulesOutcome", 0)

EvaluateOutcome ==
    /\ last = NoExchange
    /\ expense' = [expense EXCEPT !.status = evaluateRulesOutcome(rules, ledger)]
    /\ last' = Evaluated
    /\ UNCHANGED <<users, rules, ledger, notifications, audit, tx, locks>>

SpecEval == InitEval /\ [][EvaluateOutcome]_vars

-----------------------------------------------------------------------------
(* Rule administration alone: every shape of request body the rule         *)
(* endpoints may receive, sent to a table that is empty or holds one rule. *)

RuleTypesSent == {"percentage", "specific", "hybrid", "bogus", "absent"}
ApproversSent == {<<>>, <<"">>, <<"a", "b", "a">>}
Pct10Sent == {-10, 0, 4, 500, 1001}
SpecificSent == {NoUser, "c"}

ValidationPayloads ==
    {Payload(type, approvers, pct10, specific, <<>>) :
        type \in RuleTypesSent, approvers \in ApproversSent, pct10 \in Pct10Sent,
        specific \in SpecificSent}
    \cup {[Payload("percentage", <<"a">>, 500, NoUser, <<>>) EXCEPT !.rule_name = FALSE]}

InitRules ==
    /\ users = InitialUsers
    /\ rules \in InitialRuleLists
    /\ expense = [exists |-> FALSE, user_id |-> NoUser, status |-> "pending"]
    /\ ledger = <<>>
    /\ notifications = EmptyBag
    /\ audit = EmptyBag
    /\ last = NoExchange
    /\ tx = [t \in Connections |-> Idle]
    /\ locks = {}

NextRules ==
    \/ \E u \in RuleCallers, raw \in ValidationPayloads, pos \in 1..(Len(rules) + 1) :
          CreateRule(u, raw, pos)
    \/ \E u \in RuleCallers, id \in 1..(Len(rules) + 1), raw \in ValidationPayloads :
          UpdateRule(u, id, raw)
    \/ \E u \in RuleCallers, id \in 1..(Len(rules) + 1) : DeleteRule(u, id)

SpecRules == InitRules /\ [][NextRules]_vars

-----------------------------------------------------------------------------
(* Submission alone, over the rule rows the table can hold and over a      *)
(* company that has staff or has just signed up.                           *)

MaxRules == 2   \* rules a company has

\* Rows written through POST /api/approval-rules.
StoredRules ==
    {ruleOf(raw) :
        raw \in {p \in {Payload(type, approvers, 500, specific, <<>>) :
                          type \in VALID_RULE_TYPES,
                          approvers \in {<<>>, <<"a">>, <<"a", "b">>, <<"b", "a">>,
                                          <<"b", "c", "a">>},
                          specific \in {NoUser, "c"}} :
                    normalizeRulePayload(p).ok}}

\* Rows written before the approver_sequence column was added: the column is
\* NULL, the other columns are what the rule endpoint stored.
LegacyRules == {[rule EXCEPT !.approver_sequence = <<>>] : rule \in StoredRules}

RECURSIVE ListsUpTo(_, _)
ListsUpTo(S, n) ==
    IF n = 0 THEN {<<>>}
    ELSE LET shorter == ListsUpTo(S, n - 1)
         IN shorter \cup {Append(list, x) : list \in shorter, x \in S}

SubmitRuleLists == ListsUpTo(StoredRules \cup LegacyRules, MaxRules)

\* The company right after signup: its administrator and nobody else.
SignupCompany == [u \in {"c"} |-> "admin"]
Companies == {InitialUsers, SignupCompany}

InitSubmit ==
    /\ users \in Companies
    /\ rules \in SubmitRuleLists
    /\ expense = [exists |-> FALSE, user_id |-> NoUser, status |-> "pending"]
    /\ ledger = <<>>
    /\ notifications = EmptyBag
    /\ audit = EmptyBag
    /\ last = NoExchange
    /\ tx = [t \in Connections |-> Idle]
    /\ locks = {}

NextSubmit == \E u \in DOMAIN users, valid \in BOOLEAN : Submit(u, valid)

SpecSubmit == InitSubmit /\ [][NextSubmit]_vars

-----------------------------------------------------------------------------
(* Approvers who keep approving: after the submission, every user who holds *)
(* a pending record posts 'approved' for it, and nobody rejects.            *)

EmployeeS == Payload("percentage", <<"s", "a">>, 500, NoUser, <<>>)
ThenEmployeeS == Payload("percentage", <<"b", "s">>, 1000, NoUser, <<>>)
ProgressPayloadLists ==
    {<<ScenarioB>>, <<HybridC>>, <<BothAB>>, <<BothAB, SpecificC>>, <<SpecificC, BothAB>>,
     <<ThroughX>>, <<SpecificX>>, <<WithX>>, <<BesideX>>, <<SpecificC>>,
     <<EmployeeS>>, <<ThenEmployeeS>>}

InitProgress ==
    /\ users = InitialUsers
    /\ rules \in {[i \in DOMAIN list |-> ruleOf(list[i])] : list \in ProgressPayloadLists}
    /\ expense = [exists |-> FALSE, user_id |-> NoUser, status |-> "pending"]
    /\ ledger = <<>>
    /\ notifications = EmptyBag
    /\ audit = EmptyBag
    /\ last = NoExchange
    /\ tx = [t \in Connections |-> Idle]
    /\ locks = {}

ApproveAttempt(u) ==
    \E i \in DOMAIN ledger :
        /\ ledger[i].approver_id = u
        /\ ledger[i].status = "pending"
        /\ Decide(u, ledger[i].id, "approved")

NextProgress ==
    \/ \E u \in Submitters, valid \in BOOLEAN : Submit(u, valid)
    \/ \E u \in DOMAIN users : ApproveAttempt(u)

SpecProgress ==
    /\ InitProgress
    /\ [][NextProgress]_vars
    /\ \A u \in DOMAIN InitialUsers : WF_vars(ApproveAttempt(u))

-----------------------------------------------------------------------------
(* DELETE /api/users/:id *)
(* No user of the model has direct reports (manager_id is NULL in every    *)
(* users row), so the handler's transfer of direct reports never runs.     *)

\* UPDATE approvals SET approver_id = ? WHERE approver_id = ?
reassignApprovals(records, id, target) ==
    [i \in DOMAIN records |->
        IF records[i].approver_id = id
        THEN [records[i] EXCEPT !.approver_id = target]
        ELSE records[i]]

\* UPDATE expenses SET user_id = ? WHERE user_id = ?
reassignExpenses(exp, id, target) ==
    IF exp.exists /\ exp.user_id = id THEN [exp EXCEPT !.user_id = target] ELSE exp

\* DELETE FROM notifications WHERE user_id = ?
deleteNotifications(notes, id) ==
    [n \in {m \in BagToSet(notes) : m.user_id # id} |-> notes[n]]

\* The foreign keys on users(id): rows that keep DELETE FROM users from
\* removing the user.
isReferenced(id, exp, records, notes, log) ==
    \/ exp.exists /\ exp.user_id = id
    \/ \E i \in DOMAIN records : records[i].approver_id = id
    \/ \E n \in BagToSet(notes) : n.user_id = id
    \/ \E e \in BagToSet(log) : e.user_id = id

UserDeleteRefused(code) ==
    /\ last' = Exchange("user_delete", code)
    /\ UNCHANGED <<users, expense, ledger, notifications, audit>>

DeleteUser(caller, id, reassignTo) ==
    /\ caller \in DOMAIN users
    /\ UNCHANGED <<rules, tx, locks>>
    /\ IF ~assertRole(users, caller, {"admin"}) THEN UserDeleteRefused(403)
       ELSE IF id \notin DOMAIN users THEN UserDeleteRefused(404)
       ELSE IF reassignTo = id THEN UserDeleteRefused(400)
       ELSE IF reassignTo # NoUser /\ reassignTo \notin DOMAIN users
       THEN UserDeleteRefused(400)
       ELSE LET hasTarget == reassignTo # NoUser
                pendingApprovalCount ==
                    Cardinality({i \in DOMAIN ledger :
                                    /\ ledger[i].approver_id = id
                                    /\ ledger[i].status \in {"pending", "escalated"}})
                totalApprovals ==
                    Cardinality({i \in DOMAIN ledger : ledger[i].approver_id = id})
                expenseCount == IF expense.exists /\ expense.user_id = id THEN 1 ELSE 0
                records == IF totalApprovals > 0 /\ hasTarget
                           THEN reassignApprovals(ledger, id, reassignTo)
                           ELSE ledger
                exp == IF expenseCount > 0 /\ hasTarget
                       THEN reassignExpenses(expense, id, reassignTo)
                       ELSE expense
                notes == deleteNotifications(notifications, id)
            IN IF pendingApprovalCount > 0 /\ ~hasTarget THEN UserDeleteRefused(409)
               ELSE IF expenseCount > 0 /\ ~hasTarget THEN UserDeleteRefused(409)
               ELSE IF isReferenced(id, exp, records, notes, audit)
               THEN UserDeleteRefused(409)
               ELSE IF caller = id THEN UserDeleteRefused(500)
               ELSE /\ users' = [u \in DOMAIN users \ {id} |-> users[u]]
                    /\ ledger' = records
                    /\ expense' = exp
                    /\ notifications' = notes
                    /\ audit' = audit (+) SetToBag({AuditEntry(caller, "delete", "user")})
                    /\ last' = Exchange("user_delete", 200)

-----------------------------------------------------------------------------
(* Submissions, decisions and user deletions under a fixed rule set.        *)

DeleteCallers == {"a", "c"}
DeleteTargets == {"s", "a", "b", "c", "x"}
ReassignTargets == {NoUser, "s", "a", "b", "c", "x"}

DeletePayloadLists == {<<>>, <<ScenarioB>>, <<HybridC>>, <<BothAB, SpecificC>>, <<ThroughX>>}

InitDelete ==
    /\ users = InitialUsers
    /\ rules \in {[i \in DOMAIN list |-> ruleOf(list[i])] : list \in DeletePayloadLists}
    /\ expense = [exists |-> FALSE, user_id |-> NoUser, status |-> "pending"]
    /\ ledger = <<>>
    /\ notifications = EmptyBag
    /\ audit = EmptyBag
    /\ last = NoExchange
    /\ tx = [t \in Connections |-> Idle]
    /\ locks = {}

NextDelete ==
    \/ \E u \in Submitters, valid \in BOOLEAN : Submit(u, valid)
    \/ \E u \in DOMAIN users, id \in approvalIds(ledger),
          status \in {"approved", "rejected"} : Decide(u, id, status)
    \/ \E caller \in DeleteCallers, id \in DeleteTargets, reassignTo \in ReassignTargets :
          DeleteUser(caller, id, reassignTo)

SpecDelete == InitDelete /\ [][NextDelete]_vars

-----------------------------------------------------------------------------
(* Properties *)

Terminal == {"approved", "rejected"}
statusOfId(records, id) ==
    LET rows == {i \in DOMAIN records : records[i].id = id}
    IN IF rows = {} THEN "absent" ELSE records[CHOOSE i \in rows : TRUE].status
DecisionCommitted == (last' = Exchange("decision", 200))
DecisionInputs == (DOMAIN users) \X approvalIds(ledger) \X {"approved", "rejected", "escalated"}

\* C1: under a fixed rule set, once the expense status is approved or rejected
\* no later step changes it.
C1_TerminalMonotonic ==
    [][(expense.status \in Terminal /\ ruleOpsServed' = 0)
          => expense'.status = expense.status]_vars

\* C2: an approval record that is no longer pending never changes its status
\* again.
C2_RecordDecidedOnce ==
    [][\A i \in DOMAIN ledger :
          ledger[i].status # "pending"
              => statusOfId(ledger', ledger[i].id) = ledger[i].status]_vars

\* C3: once the expense is approved or rejected, a decision request changes
\* neither the ledger, the expense, the notifications nor the audit log.
C3_TerminalRefusesDecisions ==
    [][\A in \in DecisionInputs :
          (expense.status \in Terminal /\ Decide(in[1], in[2], in[3]))
              => UNCHANGED <<ledger, expense, notifications, audit>>]_vars

\* C4: a decision request by a user who is not the approver of the record it
\* names is answered with an error and changes no table.
C4_NonOwnerRefused ==
    [][\A in \in DecisionInputs :
          (/\ \E i \in DOMAIN ledger :
                 ledger[i].id = in[2] /\ ledger[i].approver_id # in[1]
           /\ Decide(in[1], in[2], in[3]))
              => /\ last'.op = "decision" /\ last'.code \in {400, 403, 404}
                 /\ UNCHANGED db]_vars
C4_Witness ==
    /\ last = Exchange("decision", 404)
    /\ \E i \in DOMAIN ledger : ledger[i].status = "pending"

\* C5: whenever a record of stage k is created, every stage of order < k has
\* at least one record and all its records are approved.
C5_StageGating ==
    [][\A i \in DOMAIN ledger' :
          ledger'[i].id \notin approvalIds(ledger)
              => previousComplete(ledger', ledger'[i].sequence_order)]_vars

\* C6: a decision that leaves a stalled workflow (the earlier stages complete,
\* the next unstarted stage without any eligible approver, no rule satisfied)
\* leaves the expense pending.
Stalled ==
    /\ expense.exists
    /\ ~anyRejected(ledger)
    /\ \A i \in DOMAIN rules : ruleVerdict(rules[i], ledger) = "none"
    /\ LET workflow == buildApprovalWorkflow(rules)
       IN \E k \in DOMAIN workflow :
             /\ stageRecords(ledger, k) = <<>>
             /\ previousComplete(ledger, k)
             /\ resolveApproverIds(users, workflow[k], expense.user_id) = {}
C6_StalledStaysPending ==
    [][(DecisionCommitted /\ Stalled') => expense'.status = "pending"]_vars

\* C7: the ledger never holds two records of the same approver.
C7_OneRecordPerApprover ==
    \A i, j \in DOMAIN ledger :
        i # j => ledger[i].approver_id # ledger[j].approver_id

\* C8: whenever some record of the expense is rejected, the expense status is
\* rejected.
C8_RejectionShortCircuit ==
    (expense.exists /\ anyRejected(ledger)) => expense.status = "rejected"
C8_Witness ==
    /\ rules # <<>>
    /\ anyRejected(ledger)
    /\ \E i \in DOMAIN ledger : ledger[i].status = "approved"
    /\ expense.status = "rejected"

\* C9: two decisions on the same expense that overlap in time commit as if
\* they ran one after the other: each COMMIT leaves exactly what the whole
\* handler, run alone on the rows committed at that moment, would leave; and
\* every request that has started ends.
SerialResult(t) ==
    decisionTransaction(users, tx[t].user, rules, expense, ledger, tx[t].id, tx[t].status,
                        tx[t].front)
C9_Serialized ==
    /\ [][\A t \in Connections :
             TxCommit(t) =>
                 /\ ledger' = SerialResult(t).ledger
                 /\ expense'.status = SerialResult(t).status
                 /\ notifications' = notifications (+) SerialResult(t).notifications
                 /\ audit' = audit (+) SerialResult(t).audit]_vars
    /\ \A t \in Connections : (tx[t].pc # "idle") ~> (tx[t].pc = "idle")
C9_Witness ==
    /\ tx[1].pc = "commit"
    /\ tx[2].pc = "waitExpense"
    /\ tx[1].user # tx[2].user
    /\ <<2, "approvals", tx[2].id>> \in locks

approvedCount(records) == Cardinality({i \in DOMAIN records : records[i].status = "approved"})

\* C11: when a decision commits with the record of the specific approver X of
\* a specific or hybrid rule approved and no record rejected, the expense is
\* approved, whatever else is pending and wherever the rule stands.
C11_SpecificShortCircuit ==
    [][(/\ DecisionCommitted
        /\ ~anyRejected(ledger')
        /\ \E i \in DOMAIN rules' :
              /\ rules'[i].rule_type \in {"specific", "hybrid"}
              /\ approvalStatusOf(ledger', rules'[i].specific_approver_required)
                    = "approved")
          => expense'.status = "approved"]_vars
C11_Witness ==
    /\ last = Exchange("decision", 200)
    /\ rules = <<ruleOf(BothAB), ruleOf(SpecificC)>>
    /\ approvalStatusOf(ledger, "c") = "approved"
    /\ approvalStatusOf(ledger, "a") = "pending"
    /\ expense.status = "approved"

\* C12 (Scenario B): with the one rule percentage [a,b,c] 34 and submitter s,
\* a decision that leaves one approved record and none rejected leaves the
\* expense pending, the required count being 2; one that leaves two approved
\* records makes it approved while c has not decided.
C12_ScenarioB ==
    [][(/\ DecisionCommitted
        /\ rules' = <<ruleOf(ScenarioB)>>
        /\ expense'.user_id = "s"
        /\ ~anyRejected(ledger'))
          => /\ requiredCount(rules'[1], 3) = 2
             /\ approvedCount(ledger') = 1 => expense'.status = "pending"
             /\ approvedCount(ledger') = 2 =>
                    /\ expense'.status = "approved"
                    /\ approvalStatusOf(ledger', "c") = "pending"]_vars
C12_Witness ==
    /\ rules = <<ruleOf(ScenarioB)>>
    /\ expense.user_id = "s"
    /\ approvalStatusOf(ledger, "a") = "approved"
    /\ approvalStatusOf(ledger, "b") = "approved"
    /\ approvalStatusOf(ledger, "c") = "pending"
    /\ expense.status = "approved"

\* C13 (Scenario A): without rules the records of a submitted expense are
\* those of the company's managers and admins other than the submitter, and
\* the expense is approved exactly when all of them are approved.
C13_ScenarioA ==
    (rules = <<>> /\ expense.exists)
        => /\ {ledger[i].approver_id : i \in DOMAIN ledger}
                 = managersAndAdmins(users, expense.user_id)
           /\ expense.status = "approved"
                 <=> \A i \in DOMAIN ledger : ledger[i].status = "approved"
C13_Witness ==
    /\ rules = <<>>
    /\ expense.user_id = "a"
    /\ Len(ledger) = 2
    /\ approvedCount(ledger) = 2
    /\ expense.status = "approved"

\* ceil(p * n / 100)
Ceil100(p, n) == (p * n + 99) \div 100
approvedAmong(records, ids) ==
    Cardinality({id \in ids : approvalStatusOf(records, id) = "approved"})
candidatesOf(rule, records) ==
    IF rule.approvers # <<>> THEN Range(rule.approvers)
    ELSE {records[i].approver_id : i \in DOMAIN records}

\* C14: for a percentage rule with integer minimum p in 1..100 the required
\* count is ceil(p * n / 100), n the number of candidates (the rule's
\* approvers, or the approvers of the ledger when it lists none), and the
\* evaluator returns approved exactly when at least that many of them hold an
\* approved record.
C14_PercentageArithmetic ==
    (last = Evaluated /\ rules[1].rule_type = "percentage")
        => LET ids == candidatesOf(rules[1], ledger)
               exact == Ceil100(rules[1].min_approval_percentage, Cardinality(ids))
           IN /\ requiredCount(rules[1], Cardinality(ids)) = exact
              /\ expense.status = "approved" <=> approvedAmong(ledger, ids) >= exact

\* C15: for a hybrid rule and a ledger without rejected records the evaluator
\* returns approved when the specific approver's record is approved, and also
\* when at least ceil(p * |A| / 100) of the approvers A hold an approved record.
C15_HybridOr ==
    (last = Evaluated /\ rules[1].rule_type = "hybrid" /\ ~anyRejected(ledger))
        => LET ids == Range(rules[1].approvers)
               exact == Ceil100(rules[1].min_approval_percentage, Cardinality(ids))
           IN /\ approvalStatusOf(ledger, rules[1].specific_approver_required) = "approved"
                    => expense.status = "approved"
              /\ approvedAmong(ledger, ids) >= exact => expense.status = "approved"

\* C16: on the state a submission or a decision leaves, a further run of the
\* Stage Activator opens no stage (no record, no notification) and the
\* Outcome Evaluator returns the status that is stored.
C16_Idempotent ==
    expense.exists
        => /\ maybeActivateNextApprovalStage(users, expense, rules, ledger) = NoStage
           /\ evaluateRulesOutcome(rules, ledger) = expense.status
C16_Witness ==
    /\ last = Exchange("decision", 200)
    /\ \E i, j \in DOMAIN ledger :
          /\ ledger[i].sequence_order = 1 /\ ledger[i].status = "approved"
          /\ ledger[j].sequence_order = 2 /\ ledger[j].status = "pending"
    /\ expense.status = "pending"

terminalCount(notes, exp) ==
    CopiesIn(TerminalNotification(exp, "approved"), notes)
        + CopiesIn(TerminalNotification(exp, "rejected"), notes)

\* C17: the notifications table never holds more than one terminal
\* notification of the expense, and a step that adds one takes the status
\* from pending to approved or rejected.
C17_OneTerminalNotification ==
    /\ [](expense.exists => terminalCount(notifications, expense) <= 1)
    /\ [][terminalCount(notifications', expense') > terminalCount(notifications, expense')
             => expense.status = "pending" /\ expense'.status \in Terminal]_vars

newRecords(before, after) ==
    {i \in DOMAIN after : after[i].id \notin approvalIds(before)}

\* C19: a step that creates records of stage k is not one in which a stage of
\* lower order, without records, resolves to no eligible approver.
C19_EmptyResolutionBlocks ==
    [][\A i \in newRecords(ledger, ledger') :
          \A j \in 1..(ledger'[i].sequence_order - 1) :
             j \in DOMAIN buildApprovalWorkflow(rules)
                => ~(/\ stageRecords(ledger, j) = <<>>
                     /\ resolveApproverIds(users, buildApprovalWorkflow(rules)[j],
                                            expense'.user_id) = {})]_vars

openStage(records) ==
    CHOOSE k \in {records[i].sequence_order : i \in DOMAIN records} :
        \A i \in DOMAIN records : records[i].sequence_order <= k

\* C20: when a committed decision completes the open stage k (its last pending
\* record becomes approved), no record is rejected and stage k + 1 of the
\* workflow resolves to somebody, the records the decision creates are pending
\* records of stage k + 1, one for each resolved approver.
C20_NextStageActivates ==
    [][(/\ DecisionCommitted
        /\ ledger # <<>>
        /\ \E i \in DOMAIN ledger :
              ledger[i].sequence_order = openStage(ledger) /\ ledger[i].status = "pending"
        /\ \A i \in DOMAIN ledger' :
              ledger'[i].sequence_order = openStage(ledger) => ledger'[i].status = "approved"
        /\ ~anyRejected(ledger')
        /\ openStage(ledger) + 1 \in DOMAIN buildApprovalWorkflow(rules)
        /\ resolveApproverIds(users, buildApprovalWorkflow(rules)[openStage(ledger) + 1],
                               expense.user_id) # {})
          => /\ {ledger'[i].approver_id : i \in newRecords(ledger, ledger')}
                   = resolveApproverIds(users,
                         buildApprovalWorkflow(rules)[openStage(ledger) + 1], expense.user_id)
             /\ \A i \in newRecords(ledger, ledger') :
                   /\ ledger'[i].sequence_order = openStage(ledger) + 1
                   /\ ledger'[i].status = "pending"]_vars

\* What the rule endpoints are to refuse: an unknown rule_type, a percentage
\* outside [0,100], a percentage or hybrid rule without approvers or with a
\* percentage not above 0, a specific or hybrid rule without its approver.
malformed(raw) ==
    LET type == IF raw.rule_type = "absent" THEN "percentage" ELSE raw.rule_type
    IN \/ type \notin VALID_RULE_TYPES
       \/ raw.pct10 < 0 \/ raw.pct10 > 1000
       \/ /\ type \in {"percentage", "hybrid"}
          /\ Range(raw.approvers) \ {""} = {} \/ raw.pct10 <= 0
       \/ /\ type \in {"specific", "hybrid"}
          /\ raw.specific_approver_required = NoUser

storedRuleValid(rule) ==
    /\ rule.rule_type \in {"percentage", "hybrid"}
          => rule.approvers # <<>> /\ rule.min_approval_percentage > 0
    /\ rule.rule_type \in {"specific", "hybrid"}
          => rule.specific_approver_required # NoUser

\* C18: no step that answers other than 400, or changes the rules or the audit
\* log, is an administrator's create or edit request with a malformed body
\* (such a request is answered 400 and persists nothing), and every
\* stored percentage or hybrid rule has an approver and a percentage above 0,
\* every stored specific or hybrid rule its specific approver.
C18_RuleValidation ==
    /\ [](\A i \in DOMAIN rules : storedRuleValid(rules[i]))
    /\ [][(last'.code # 400 \/ rules' # rules \/ audit' # audit)
             => \A raw \in ValidationPayloads :
                   malformed(raw)
                      => ~(\/ \E pos \in 1..(Len(rules) + 1) : CreateRule("c", raw, pos)
                           \/ \E id \in 1..(Len(rules) + 1) : UpdateRule("c", id, raw))]_vars

\* the ordered list of a rule: its approver_sequence if present, else its
\* approvers array
ownList(rule) ==
    IF rule.approver_sequence # <<>> THEN rule.approver_sequence ELSE rule.approvers
lowestKey(stageMap, id) ==
    CHOOSE k \in DOMAIN stageMap : id \in stageMap[k] /\ \A j \in 1..(k - 1) : id \notin stageMap[j]
\* the keys that are the lowest key of some approver, counted up to key k
survivingKeys(stageMap, k) ==
    {j \in 1..k : \E id \in stageMap[j] : lowestKey(stageMap, id) = j}

\* C21: for every rule whose specific approver is not in the rule's own
\* ordered list, the stage map holds that approver at the key one after the
\* length of that list.
C21_SpecificAfterOwnList ==
    \A i \in DOMAIN rules :
        (/\ rules[i].specific_approver_required # NoUser
         /\ rules[i].specific_approver_required \notin Range(ownList(rules[i])))
            => With(mergeRules(<<>>, rules, 1), LAMBDA stageMap :
                   /\ Len(ownList(rules[i])) + 1 \in DOMAIN stageMap
                   /\ rules[i].specific_approver_required
                         \in stageMap[Len(ownList(rules[i])) + 1])

\* C22: the stages of the workflow are pairwise disjoint, and every approver
\* named by a rule's ordered list is in the stage that comes from the lowest
\* key at which the rules place it.
C22_NoApproverTwice ==
    With(mergeRules(<<>>, rules, 1), LAMBDA stageMap :
    With(workflowSteps(rules), LAMBDA steps :
        /\ \A i, j \in DOMAIN steps :
              i # j => steps[i].approverIds \cap steps[j].approverIds = {}
        /\ \A r \in DOMAIN rules : \A id \in Range(ownList(rules[r])) :
              With(Cardinality(survivingKeys(stageMap, lowestKey(stageMap, id))), LAMBDA at :
                  at \in DOMAIN steps /\ id \in steps[at].approverIds)))
C22_Witness ==
    /\ last = Exchange("submit", 201)
    /\ Len(workflowSteps(rules)) >= 2
    /\ \E id \in {"a", "b", "c"} :
          Cardinality({k \in DOMAIN mergeRules(<<>>, rules, 1) :
                          id \in mergeRules(<<>>, rules, 1)[k]}) >= 2

\* C23: the steps of the workflow have the orders 1..N in this order, none is
\* empty, and a step that comes earlier holds approvers of lower keys.
C23_Contiguous ==
    With(mergeRules(<<>>, rules, 1), LAMBDA stageMap :
    With(workflowSteps(rules), LAMBDA steps :
        /\ \A i \in DOMAIN steps : steps[i].order = i /\ steps[i].approverIds # {}
        /\ \A i, j \in DOMAIN steps :
              i < j => \A x \in steps[i].approverIds, y \in steps[j].approverIds :
                          lowestKey(stageMap, x) < lowestKey(stageMap, y)))
C23_Witness ==
    /\ last = Exchange("submit", 201)
    /\ With(mergeRules(<<>>, rules, 1), LAMBDA stageMap :
          \E k \in DOMAIN stageMap :
             /\ stageMap[k] # {}
             /\ k \notin survivingKeys(stageMap, k)
             /\ survivingKeys(stageMap, Len(stageMap)) \ (1..k) # {})

recordApprovers(records) == {records[i].approver_id : i \in DOMAIN records}

\* C24: a submission answered 201 opens the fallback stage (order 1, every
\* manager and admin but the submitter) when the merged workflow is empty, and
\* when the workflow is not empty every record it creates is for an approver
\* of the workflow stage of the record's order.
C24_FallbackOnlyWhenEmpty ==
    [][(~expense.exists /\ last' = Exchange("submit", 201))
          => With(buildApprovalWorkflow(rules), LAMBDA workflow :
                IF workflow = <<>>
                THEN /\ recordApprovers(ledger') = managersAndAdmins(users, expense'.user_id)
                     /\ \A i \in DOMAIN ledger' : ledger'[i].sequence_order = 1
                ELSE \A i \in DOMAIN ledger' :
                        /\ ledger'[i].sequence_order \in DOMAIN workflow
                        /\ ledger'[i].approver_id \in workflow[ledger'[i].sequence_order])]_vars

\* C25: every record a step creates is for a user of the company who is not
\* the submitter of the expense, and a step whose stage names the submitter or
\* an id that is no user is answered without a server error.
C25_ResolverExcludes ==
    [][/\ \A i \in newRecords(ledger, ledger') :
             /\ ledger'[i].approver_id # expense'.user_id
             /\ ledger'[i].approver_id \in DOMAIN users'
       /\ last'.code < 500]_vars
C25_Witness ==
    /\ last = Exchange("decision", 200)
    /\ \E i \in DOMAIN ledger :
          /\ ledger[i].sequence_order = 2 /\ ledger[i].status = "pending"
          /\ Len(buildApprovalWorkflow(rules)) >= 2
          /\ buildApprovalWorkflow(rules)[2] \ recordApprovers(ledger) # {}

\* C26: under a single percentage rule, an expense without a rejected record
\* is approved only if at least ceil(p * n / 100) of the rule's n approvers
\* hold an approved record.
C26_QuorumNecessary ==
    (/\ Len(rules) = 1
     /\ rules[1].rule_type = "percentage"
     /\ ~anyRejected(ledger)
     /\ expense.status = "approved")
        => approvedAmong(ledger, Range(rules[1].approvers))
              >= Ceil100(rules[1].min_approval_percentage, Cardinality(Range(rules[1].approvers)))

approvalRequests(notes) ==
    BagCardinality([n \in {m \in BagToSet(notes) : m.title = "New Expense Approval"
                                                  \/ m.title = "Expense Approval Needed"} |-> notes[n]])

\* C27: a committed decision that leaves the expense approved creates no
\* record and no approval-request notification, and no step creates a record
\* for an expense that is approved.
C27_NoStageWhenApproved ==
    [][/\ (DecisionCommitted /\ expense'.status = "approved")
             => /\ newRecords(ledger, ledger') = {}
                /\ approvalRequests(notifications') = approvalRequests(notifications)
       /\ expense.status = "approved" => newRecords(ledger, ledger') = {}]_vars

\* C29: a submission answered 201 leaves at least one pending record in the
\* ledger of the expense.
C29_SubmissionOpensAStage ==
    [][(~expense.exists /\ last' = Exchange("submit", 201))
          => \E i \in DOMAIN ledger' : ledger'[i].status = "pending"]_vars

\* C28: once a submission has created a record, and while every holder of a
\* pending record keeps posting 'approved' for it, the expense eventually is
\* approved.
C28_Progress ==
    (expense.exists /\ ledger # <<>>) ~> (expense.status = "approved")

\* C30: a committed user deletion with reassignment preserves the ledger
\* invariants: when, before it, no two records of the expense share an
\* approver and no record's approver is the submitter, then after it no
\* record references the deleted user, no two records share an approver and
\* no record's approver is the submitter.
uniquePerApprover(records) ==
    \A i, j \in DOMAIN records : i # j => records[i].approver_id # records[j].approver_id
noSelfApproval(exp, records) ==
    \A i \in DOMAIN records : records[i].approver_id # exp.user_id
C30_DeletionPreservesLedger ==
    [][\A caller \in DeleteCallers, id \in DeleteTargets, reassignTo \in ReassignTargets \ {NoUser} :
          (/\ DeleteUser(caller, id, reassignTo)
           /\ last'.code = 200
           /\ uniquePerApprover(ledger)
           /\ noSelfApproval(expense, ledger))
          => /\ \A i \in DOMAIN ledger' : ledger'[i].approver_id # id
             /\ uniquePerApprover(ledger')
             /\ noSelfApproval(expense', ledger')]_vars

====
